---------------------------- MODULE Spec2Model ----------------------------
(***************************************************************************)
(* A model of simpleNTRU.py: the class SimpleNTRU (ring arithmetic in      *)
(* Z[x]/(x^N - 1), inversion, key generation, encryption, decryption) and  *)
(* the example run main().                                                 *)
(*                                                                         *)
(* A polynomial of the ring R = ZZ[x] is the sequence of its coefficients  *)
(* with the trailing zeros removed (index i+1 holds the coefficient of     *)
(* x^i), which is what R(list) builds and coefficients(sparse=False)       *)
(* returns; the zero polynomial is the empty sequence.                     *)
(***************************************************************************)
EXTENDS Integers, Sequences, FiniteSets

\* ------------------------------------------------------------------ bounds
MaxN == 4          \* direct calls: ring degrees 3..MaxN
MaxQExp == 4       \* q = 2^k for k in 3..MaxQExp
MaxCoef == 2       \* coefficients of the argument polynomials: -MaxCoef..MaxCoef
MaxMod == 6        \* moduli handed to poly_mult_mod: 2..MaxMod; composite q: 4..MaxMod
MaxExtra == 1      \* a message list holds at most N + MaxExtra coefficients
MaxStride == 2     \* main(): the random source steps by 1..MaxStride

\* ------------------------------------------------------- program constants
DefaultN == 11
DefaultP == 3
DefaultQ == 32

VARIABLES
    N, p, q,            \* self.N, self.p, self.q
    rng,                \* the random source behind random.sample
    pc,                 \* where the caller stands
    f, g,               \* keygen: the small polynomials of the last attempt
    fp_inv, fq_inv,     \* keygen: what inv_poly returned in the last attempt
    private_key,        \* keygen: (f, fp_inv)
    public_key,         \* keygen: h
    message, r, c,      \* encrypt: message list, blinding polynomial, ciphertext
    mod_q_arg,          \* encrypt: the polynomial handed to the last poly_mod_q
    a, a_centered, b,   \* decrypt: f*c mod q, its centered form, that mod p
    recovered,          \* decrypt: the returned polynomial
    call, ret           \* a direct call of one method: its arguments, its result

params == <<N, p, q, rng>>
keyVars == <<f, g, fp_inv, fq_inv, private_key, public_key>>
encVars == <<message, r, c, mod_q_arg>>
decVars == <<a, a_centered, b, recovered>>
callVars == <<call, ret>>
vars == <<params, pc, keyVars, encVars, decVars, callVars>>

\* ------------------------------------------------------------ polynomials
None == [none |-> TRUE]
Some(x) == [none |-> FALSE, val |-> x]

\* the length of s without its trailing zeros, n being the length still to check
RECURSIVE TrimLen(_, _)
TrimLen(s, n) == IF n = 0 THEN 0
                 ELSE IF s[n] = 0 THEN TrimLen(s, n - 1)
                 ELSE n

Trim(s) == SubSeq(s, 1, TrimLen(s, Len(s)))

\* R(coeffs): the polynomial with these coefficients
R(coeffs) == Trim(coeffs)

\* coeffs.extend([0] * (n - len(coeffs))) when len(coeffs) < n
Extend(coeffs, n) == IF Len(coeffs) < n
                     THEN coeffs \o [i \in 1..(n - Len(coeffs)) |-> 0]
                     ELSE coeffs

\* coeffs[:n]
Take(coeffs, n) == SubSeq(coeffs, 1, IF Len(coeffs) < n THEN Len(coeffs) ELSE n)

Coef(poly, i) == IF i >= 1 /\ i <= Len(poly) THEN poly[i] ELSE 0

RECURSIVE SumTo(_, _)
SumTo(s, n) == IF n = 0 THEN 0 ELSE s[n] + SumTo(s, n - 1)

Sum(s) == SumTo(s, Len(s))

\* a + b in R
PolyAdd(x, y) == R([i \in 1..(IF Len(x) < Len(y) THEN Len(y) ELSE Len(x)) |->
                      Coef(x, i) + Coef(y, i)])

\* k * a in R
ScalarMul(k, x) == R([i \in 1..Len(x) |-> k * x[i]])

\* a * b in R: the full convolution
PolyMul(x, y) ==
    IF x = <<>> \/ y = <<>> THEN <<>>
    ELSE R([k \in 1..(Len(x) + Len(y) - 1) |->
              Sum([i \in 1..Len(x) |-> x[i] * Coef(y, k - i + 1)])])

\* poly_mod_q as a copy of poly_mod_p that still reduces modulo p
PolyModQByP(poly) ==
    LET coeffs == Extend(poly, N)
    IN R([i \in 1..N |-> coeffs[i] % p])

\* poly_mod_q
PolyModQ(poly) ==
    LET coeffs == Extend(poly, N)
    IN R([i \in 1..N |-> coeffs[i] % q])

\* poly_mod_p
PolyModP(poly) ==
    LET coeffs == Extend(poly, N)
    IN R([i \in 1..N |-> coeffs[i] % p])

\* the coefficients at index i, i + N, i + 2N, ... added up
RECURSIVE FoldAt(_, _, _)
FoldAt(coeffs, i, n) == IF i > Len(coeffs) THEN 0
                        ELSE coeffs[i] + FoldAt(coeffs, i + n, n)

\* poly_reduce that cuts the polynomial to N coefficients and folds nothing
PolyReduceCut(poly) == R(Take(poly, N))

\* poly_reduce
PolyReduce(poly) == R([i \in 1..N |-> FoldAt(poly, i, N)])

\* poly_mult_mod
PolyMultMod(x, y, mod) ==
    LET product == PolyMul(x, y)
        reduced == PolyReduce(product)
    IN IF mod = p THEN PolyModP(reduced)
       ELSE IF mod = q THEN PolyModQ(reduced)
       ELSE reduced

\* ------------------------------------------------ the library's quotient ring
\* Arithmetic of Integers(m)['x'] / (x^N - 1), which inv_poly builds: a residue
\* polynomial is a trimmed sequence with coefficients in 0..m-1.
IsPrime(m) == m >= 2 /\ \A k \in 2..(m - 1) : m % k # 0

RECURSIVE IsPowerOfTwo(_)
IsPowerOfTwo(m) == IF m = 2 THEN TRUE
                   ELSE IF m < 2 \/ m % 2 # 0 THEN FALSE
                   ELSE IsPowerOfTwo(m \div 2)

\* the inverse of x in Integers(m), or 0 when x is no unit
UnitInverse(x, m) == IF \E y \in 1..(m - 1) : (x * y) % m = 1
                     THEN CHOOSE y \in 1..(m - 1) : (x * y) % m = 1
                     ELSE 0

\* Rm(coeffs): the coefficients taken modulo m
Rm(coeffs, m) == Trim([i \in 1..Len(coeffs) |-> coeffs[i] % m])

One == <<1>>

\* x^N - 1 in Rm
Modulus(n, m) == <<m - 1>> \o [i \in 1..(n - 1) |-> 0] \o <<1>>

\* the product of two elements of the quotient ring
QuotientMul(x, y, n, m) == Rm([i \in 1..n |-> FoldAt(PolyMul(x, y), i, n)], m)

\* Division with remainder in Rm by y, whose leading coefficient has the
\* inverse li: quo and rem are the quotient and the remainder so far.
RECURSIVE DivRem(_, _, _, _, _)
DivRem(quo, rem, y, li, m) ==
    IF Len(rem) < Len(y) THEN [quo |-> quo, rem |-> rem]
    ELSE LET k == Len(rem) - Len(y)
             cf == (rem[Len(rem)] * li) % m
             rem2 == Rm([i \in 1..Len(rem) |-> rem[i] - cf * Coef(y, i - k)], m)
             quo2 == Rm(PolyAdd(quo, [i \in 1..(k + 1) |-> IF i = k + 1 THEN cf ELSE 0]), m)
         IN DivRem(quo2, rem2, y, li, m)

\* The extended Euclidean algorithm in Rm on (x^N - 1, poly): r0, r1 are two
\* successive remainders and t0, t1 their cofactors, r_i = t_i * poly modulo
\* x^N - 1. It gives up (ok = FALSE) when a leading coefficient is no unit.
RECURSIVE Euclid(_, _, _, _, _)
Euclid(r0, r1, t0, t1, m) ==
    IF r1 = <<>> THEN [ok |-> TRUE, gcd |-> r0, cofactor |-> t0]
    ELSE LET li == UnitInverse(r1[Len(r1)], m)
         IN IF li = 0 THEN [ok |-> FALSE, gcd |-> <<>>, cofactor |-> <<>>]
            ELSE LET d == DivRem(<<>>, r0, r1, li, m)
                     t2 == Rm(PolyAdd(t0, ScalarMul(-1, PolyMul(d.quo, t1))), m)
                 IN Euclid(r1, d.rem, t1, t2, m)

\* EuclidInverse that returns the cofactor as it is, the gcd's constant not divided out
EuclidInverseUnscaled(poly, n, m) ==
    LET e == Euclid(Modulus(n, m), poly, <<>>, One, m)
        u == IF e.ok /\ Len(e.gcd) = 1 THEN UnitInverse(e.gcd[1], m) ELSE 0
    IN IF u = 0 THEN None
       ELSE Some(QuotientMul(One, e.cofactor, n, m))

\* the inverse of poly in the quotient ring as the Euclidean algorithm finds it
EuclidInverse(poly, n, m) ==
    LET e == Euclid(Modulus(n, m), poly, <<>>, One, m)
        u == IF e.ok /\ Len(e.gcd) = 1 THEN UnitInverse(e.gcd[1], m) ELSE 0
    IN IF u = 0 THEN None
       ELSE Some(QuotientMul(<<u>>, e.cofactor, n, m))

\* Newton's step b <- b * (2 - poly * b), repeated until poly * b = 1: it lifts an
\* inverse modulo 2 to the inverse modulo m = 2^k.
RECURSIVE Lift(_, _, _, _)
Lift(poly, inv, n, m) ==
    LET prod == QuotientMul(poly, inv, n, m)
    IN IF prod = One THEN inv
       ELSE Lift(poly, QuotientMul(inv, Rm(PolyAdd(<<2>>, ScalarMul(-1, prod)), m), n, m), n, m)

\* poly_in_quotient**(-1): the inverse of poly in the quotient ring, or None where
\* the library raises. Over a field the Euclidean algorithm decides; modulo 2^k
\* the units are the polynomials that are units modulo 2.
QuotientInverse(poly, n, m) ==
    IF IsPrime(m) \/ ~IsPowerOfTwo(m) THEN EuclidInverse(poly, n, m)
    ELSE LET inv2 == EuclidInverse(Rm(poly, 2), n, 2)
         IN IF inv2 = None THEN None ELSE Some(Lift(poly, inv2.val, n, m))

\* inv_poly: the values it can return, None or the coefficient list of the inverse
\* (of length N, reduced into 0..modulus-1). Over a base ring that is no field the
\* library may raise for a unit as well, and every exception becomes None.
InvPoly(poly, modulus) ==
    LET poly_coeffs == Extend(poly, N)
        poly_in_quotient == Rm(Take(poly_coeffs, N), modulus)
        inv == QuotientInverse(poly_in_quotient, N, modulus)
    IN (IF inv = None THEN {None} ELSE {Some(Extend(inv.val, N))})
       \cup (IF IsPrime(modulus) THEN {} ELSE {None})

\* ------------------------------------------------------------ random source
Raised(e) == [none |-> TRUE, raised |-> e]

Injective(s) == \A i, j \in DOMAIN s : i # j => s[i] # s[j]

\* Sample that draws with replacement (random.choices): positions may repeat
SampleWithReplacement(n, k) == [1..k -> 0..(n - 1)]

\* random.sample(range(n), k), k <= n: the lists of k distinct positions the random
\* source can return. The source "any" returns every such list; the source
\* "stride" walks range(n) from any start in steps of 1..MaxStride.
Sample(n, k) ==
    IF rng = "any"
    THEN {s \in [1..k -> 0..(n - 1)] : Injective(s)}
    ELSE {s \in {[i \in 1..k |-> (start + (i - 1) * stride) % n] :
                    start \in 0..(n - 1), stride \in 1..MaxStride} : Injective(s)}

\* random_small_poly after the sample: the two loops that place the +1s and -1s
PlaceCoeffs(positions, d1, d2) ==
    R([i \in 1..N |->
         IF \E j \in (d1 + 1)..(d1 + d2) : positions[j] = i - 1 THEN -1
         ELSE IF \E j \in 1..d1 : positions[j] = i - 1 THEN 1
         ELSE 0])

\* random_small_poly: the values it can return; random.sample raises ValueError
\* when asked for more positions than range(N) holds
RandomSmallPoly(d1, d2) ==
    IF d1 + d2 > N THEN {Raised("ValueError")}
    ELSE {Some(PlaceCoeffs(positions, d1, d2)) : positions \in Sample(N, d1 + d2)}

\* --------------------------------------------------------------- operations
NoPoly == <<>>
NoKey == [f |-> NoPoly, fp_inv |-> NoPoly]
NoMessage == [str |-> FALSE, data |-> <<>>]
NoCall == [op |-> "none", d1 |-> 0, d2 |-> 0, x |-> NoPoly, y |-> NoPoly, mod |-> 0]

\* keygen, one attempt: it returns the key pair, or calls itself again when an
\* inversion failed
Keygen ==
    /\ pc \in {"start", "retry"}
    /\ LET d == N \div 3
       IN \E sf \in RandomSmallPoly(d + 1, d) :
            \E ip \in InvPoly(sf.val, p), iq \in InvPoly(sf.val, q) :
               \E sg \in RandomSmallPoly(d, d) :
                  /\ fp_inv' = ip
                  /\ fq_inv' = iq
                  /\ IF ip = None \/ iq = None
                     THEN /\ pc' = "retry"
                          /\ f' = NoPoly
                          /\ g' = NoPoly
                          /\ private_key' = NoKey
                          /\ public_key' = NoPoly
                     ELSE LET fp_inv_coeffs == Take(ip.val, N)
                              fq_inv_coeffs == Take(iq.val, N)
                              h == PolyMultMod(ScalarMul(p, R(fq_inv_coeffs)), sg.val, q)
                          IN /\ pc' = "keyed"
                             /\ f' = sf.val
                             /\ g' = sg.val
                             /\ private_key' = [f |-> sf.val, fp_inv |-> R(fp_inv_coeffs)]
                             /\ public_key' = h
    /\ UNCHANGED <<params, encVars, decVars, callVars>>

\* encrypt, lines 153-159: a str is encoded by its characters' codes modulo p, cut
\* or zero-padded to N; a list is taken as it is
MessageCoeffs(msg) ==
    IF msg.str
    THEN Extend([i \in 1..Len(Take(msg.data, N)) |-> msg.data[i] % p], N)
    ELSE msg.data

\* encrypt(message, public_key) for a message among msgs
Encrypt(msgs) ==
    /\ pc = "keyed"
    /\ LET h == public_key
           d == N \div 3
       IN \E sr \in RandomSmallPoly(d, d) :
            LET c1 == PolyMultMod(sr.val, h, q)
            IN \E msg \in msgs :
                 LET m == R(MessageCoeffs(msg))
                 IN /\ message' = msg
                    /\ r' = sr.val
                    /\ mod_q_arg' = PolyAdd(c1, m)
                    /\ c' = PolyModQ(mod_q_arg')
    /\ pc' = "encrypted"
    /\ UNCHANGED <<params, keyVars, decVars, callVars>>

\* Center that leaves every coefficient in [0, q)
CenterNot(poly) == R(Take(Extend(poly, N), N))

\* Center with the threshold >= q // 2 (the range [-q/2, q/2) of the comment)
CenterAtHalf(poly) ==
    LET a_coeffs == Extend(poly, N)
    IN R([i \in 1..N |-> IF a_coeffs[i] >= q \div 2 THEN a_coeffs[i] - q ELSE a_coeffs[i]])

\* decrypt, lines 185-197: the coefficients of a above q // 2 lowered by q
Center(poly) ==
    LET a_coeffs == Extend(poly, N)
    IN R([i \in 1..N |-> IF a_coeffs[i] > q \div 2 THEN a_coeffs[i] - q ELSE a_coeffs[i]])

\* decrypt(ciphertext, private_key)
Decrypt ==
    /\ pc = "encrypted"
    /\ a' = PolyMultMod(private_key.f, c, q)
    /\ a_centered' = Center(a')
    /\ b' = PolyModP(a_centered')
    /\ recovered' = PolyMultMod(private_key.fp_inv, b', p)
    /\ pc' = "decrypted"
    /\ UNCHANGED <<params, keyVars, encVars, callVars>>

\* main, lines 241-248: the comparison of the message with what decrypt returned
MainCheck ==
    /\ pc = "decrypted"
    /\ LET recovered_coeffs == Extend(recovered, Len(message.data))
       IN pc' = IF message.data = Take(recovered_coeffs, Len(message.data))
                THEN "success"
                ELSE "failed"
    /\ UNCHANGED <<params, keyVars, encVars, decVars, callVars>>

\* ------------------------------------------------------------------- inputs
\* the coefficient lists with n entries in lo..hi
Lists(n, lo, hi) == [1..n -> lo..hi]

\* the polynomials of degree < N with coefficients in -MaxCoef..MaxCoef
Polys == {R(l) : l \in Lists(N, -MaxCoef, MaxCoef)}

\* the polynomials of degree < N with coefficients in {-1, 0, 1}
SmallPolys == {R(l) : l \in Lists(N, -1, 1)}

\* the messages of the protocol: N coefficients in [0, p)
Messages == {[str |-> FALSE, data |-> l] : l \in Lists(N, 0, p - 1)}

\* what encrypt accepts: a list of any length (here of binary coefficients, up to
\* N + MaxExtra of them) or a str (here of the characters a and b)
AnyMessages ==
    UNION {{[str |-> FALSE, data |-> l] : l \in Lists(n, 0, 1)} \cup
           {[str |-> TRUE, data |-> l] : l \in Lists(n, 97, 98)} : n \in 0..(N + MaxExtra)}

\* message of main, line 226
MainMessage == [str |-> FALSE, data |-> <<1, 0, 1, 1, 0, 0, 1, 0, 1, 0, 0>>]

\* the degree for which the protocol is run in full (every key pair, blinding
\* polynomial and message): the smallest one in which keygen both fails and succeeds
ProtocolDegrees == {4}

\* ------------------------------------------------------------- direct calls
\* One method called on a fresh instance with arguments of the caller's choice.
CallRandomSmallPoly ==
    /\ pc = "start"
    /\ \E d1, d2 \in 0..(N + 1) :
         /\ call' = [NoCall EXCEPT !.op = "random_small_poly", !.d1 = d1, !.d2 = d2]
         /\ ret' \in RandomSmallPoly(d1, d2)
    /\ pc' = "returned"
    /\ UNCHANGED <<params, keyVars, encVars, decVars>>

CallInvPoly ==
    /\ pc = "start"
    /\ \E x \in Polys, modulus \in {p, q} :
         /\ call' = [NoCall EXCEPT !.op = "inv_poly", !.x = x, !.mod = modulus]
         /\ ret' \in InvPoly(x, modulus)
    /\ pc' = "returned"
    /\ UNCHANGED <<params, keyVars, encVars, decVars>>

CallPolyMultMod ==
    /\ pc = "start"
    /\ \E x, y \in SmallPolys, mod \in 2..MaxMod :
         /\ call' = [NoCall EXCEPT !.op = "poly_mult_mod", !.x = x, !.y = y, !.mod = mod]
         /\ ret' = Some(PolyMultMod(x, y, mod))
    /\ pc' = "returned"
    /\ UNCHANGED <<params, keyVars, encVars, decVars>>

\* ----------------------------------------------------------- specifications
EncryptMessage == Encrypt(Messages)

EncryptAny == Encrypt(AnyMessages)

EncryptMain == Encrypt({MainMessage})

Blank ==
    /\ f = NoPoly /\ g = NoPoly /\ fp_inv = None /\ fq_inv = None
    /\ private_key = NoKey /\ public_key = NoPoly
    /\ message = NoMessage /\ r = NoPoly /\ c = NoPoly /\ mod_q_arg = NoPoly
    /\ a = NoPoly /\ a_centered = NoPoly /\ b = NoPoly /\ recovered = NoPoly
    /\ call = NoCall /\ ret = None

\* SimpleNTRU(N, p, q) with p = 3 and q a power of two, as the class documents
\* them; then keygen, encrypt and decrypt in turn
Init ==
    /\ N \in ProtocolDegrees
    /\ p = DefaultP
    /\ q \in {2 ^ k : k \in 3..MaxQExp}
    /\ rng = "any"
    /\ pc = "start"
    /\ Blank

Next == Keygen \/ EncryptMessage \/ Decrypt

Spec == Init /\ [][Next]_vars

\* the methods random_small_poly and inv_poly called on their own
InitCalls ==
    /\ N \in 3..MaxN
    /\ p = DefaultP
    /\ q \in {2 ^ k : k \in 3..MaxQExp}
    /\ rng = "any"
    /\ pc = "start"
    /\ Blank

NextCalls == CallRandomSmallPoly \/ CallInvPoly

SpecCalls == InitCalls /\ [][NextCalls]_vars

\* Any composite q above p, any message encrypt accepts, any modulus handed to
\* poly_mult_mod.
InitWide ==
    /\ N \in ProtocolDegrees
    /\ p = DefaultP
    /\ q \in {m \in (DefaultP + 1)..MaxMod : ~IsPrime(m)}
    /\ rng = "any"
    /\ pc = "start"
    /\ Blank

NextWide == Keygen \/ EncryptAny \/ Decrypt \/ CallPolyMultMod

SpecWide == InitWide /\ [][NextWide]_vars

\* main(): SimpleNTRU(N=11, p=3, q=32), keygen, encrypt, decrypt, the comparison
InitMain ==
    /\ N = DefaultN
    /\ p = DefaultP
    /\ q = DefaultQ
    /\ rng = "stride"
    /\ pc = "start"
    /\ Blank

NextMain == Keygen \/ EncryptMain \/ Decrypt \/ MainCheck

SpecMain == InitMain /\ [][NextMain]_vars

\* ------------------------------------------------------------------- claims
\* how many coefficients of poly equal v
Count(poly, v) == Cardinality({i \in 1..Len(poly) : poly[i] = v})

Small(poly, d1, d2) ==
    /\ Len(poly) <= N
    /\ Count(poly, 1) = d1
    /\ Count(poly, -1) = d2
    /\ Count(poly, 0) = Len(poly) - d1 - d2

HasKey == pc \in {"keyed", "encrypted", "decrypted", "success", "failed"}

HasCiphertext == pc \in {"encrypted", "decrypted", "success", "failed"}

HasRecovered == pc \in {"decrypted", "success", "failed"}

\* p*r*g + f*m in Z[x]/(x^N - 1), no coefficient reduced
Noise == PolyReduce(PolyAdd(ScalarMul(p, PolyMul(r, g)), PolyMul(f, R(message.data))))

NoiseInBound ==
    LET noise == Noise
    IN \A i \in 1..N : -q < 2 * Coef(noise, i) /\ 2 * Coef(noise, i) <= q

\* C1: round trip under the noise bound. Whenever decrypt has returned for a key
\* pair of keygen, a message of N coefficients in [0, p) and a sampled r, and every
\* coefficient of p*r*g + f*m lies in (-q/2, q/2], the recovered polynomial has
\* exactly the coefficients of the message.
C1_RoundTrip ==
    (HasRecovered /\ NoiseInBound) => Extend(recovered, N) = message.data

\* C1 witness: a decryption within the noise bound, of a message with a coefficient
\* p - 1, in which the noise has a negative coefficient
C1_Witness ==
    /\ pc = "decrypted"
    /\ NoiseInBound
    /\ \E i \in 1..N : message.data[i] = p - 1
    /\ \E i \in 1..N : Coef(Noise, i) < 0
    /\ Extend(recovered, N) = message.data

\* C2: the example run of main (N = 11, p = 3, q = 32, the message of line 226)
\* never reaches the "Decryption failed" branch.
C2_MainNeverFails == pc # "failed"

\* C3: keygen returns only from an attempt in which both inversions succeeded, a
\* failed attempt keeps neither f nor g nor a key, and the returned pair has f with
\* d+1 ones and d minus-ones (d = N // 3), f*fpInv = 1 modulo p and x^N - 1,
\* f*fqInv = 1 modulo q and x^N - 1, and h = p*fqInv*g modulo q and x^N - 1 for the
\* g of the same attempt, itself small with d ones and d minus-ones.
C3_KeyPair ==
    /\ pc = "retry" =>
          /\ fp_inv = None \/ fq_inv = None
          /\ f = NoPoly /\ g = NoPoly
          /\ private_key = NoKey /\ public_key = NoPoly
    /\ pc = "keyed" =>
          /\ fp_inv # None /\ fq_inv # None
          /\ private_key.f = f
          /\ Small(f, N \div 3 + 1, N \div 3)
          /\ Small(g, N \div 3, N \div 3)
          /\ private_key.fp_inv = R(fp_inv.val)
          /\ QuotientMul(f, private_key.fp_inv, N, p) = One
          /\ QuotientMul(f, fq_inv.val, N, q) = One
          /\ public_key = QuotientMul(ScalarMul(p, fq_inv.val), g, N, q)

\* C3 witness: keygen has returned a key pair with a public key other than 0
C3_Witness == pc = "keyed" /\ public_key # NoPoly /\ private_key.fp_inv # One

\* C4: inv_poly(a, m), m in {p, q}, returns None or a b with poly_mult_mod(a, b, m)
\* the identity polynomial; it returns None for a = 0 (and so for every a that is no
\* unit, for which no such b exists).
C4_InverseCorrect ==
    call.op = "inv_poly" =>
        /\ ret # None => PolyMultMod(call.x, R(ret.val), call.mod) = One
        /\ Rm(call.x, call.mod) = <<>> => ret = None

\* C4 witness: inv_poly has returned an inverse modulo q that is no constant
C4_Witness ==
    /\ call.op = "inv_poly"
    /\ call.mod = q
    /\ ret # None
    /\ Len(R(ret.val)) > 1

\* C5: for all polynomials a, b and every modulus m handed to poly_mult_mod, the
\* result has at most N coefficients, each in [0, m).
C5_RingClosure ==
    call.op = "poly_mult_mod" =>
        /\ Len(ret.val) <= N
        /\ \A i \in 1..Len(ret.val) : ret.val[i] \in 0..(call.mod - 1)

\* C6: with a modulus q that is neither prime nor a power of two, keygen neither
\* retries nor returns a key: the unsupported modulus is surfaced to the caller.
C6_UnsupportedSurfaced ==
    (~IsPrime(q) /\ ~IsPowerOfTwo(q)) => pc \in {"start", "returned", "unsupported"}

C8_Sampler ==
    call.op = "random_small_poly" =>
        IF call.d1 + call.d2 <= N
        THEN ret.none = FALSE /\ Small(ret.val, call.d1, call.d2)
        ELSE ret = Raised("ValueError")

\* C8 witness: random_small_poly has filled all N positions, with both signs
C8_Witness ==
    /\ call.op = "random_small_poly"
    /\ call.d1 + call.d2 = N
    /\ call.d1 > 0 /\ call.d2 > 1
    /\ ret.none = FALSE
    /\ Len(ret.val) = N

\* C9: poly_mod_q in encrypt never drops a nonzero coefficient: the polynomial it
\* is handed has no coefficient at exponent >= N, for every message list accepted.
C9_NoLossyTruncation == HasCiphertext => Len(mod_q_arg) <= N

\* C10: the ciphertext's coefficients sum to the message's coefficients' sum modulo
\* q, and the coefficients of a public key of keygen sum to 0 modulo q.
C10_SumLeak ==
    /\ HasCiphertext => (Sum(c) - Sum(message.data)) % q = 0
    /\ HasKey => Sum(public_key) % q = 0

\* C10 witness: a ciphertext other than the message, of a message with a sum that
\* is not 0 modulo q
C10_Witness ==
    /\ pc = "encrypted"
    /\ Sum(message.data) % q # 0
    /\ Extend(c, N) # message.data
    /\ public_key # NoPoly

=============================================================================
